---- MODULE Spec2Model ----
(***************************************************************************)
(* A model of the RISC-V emulator core of src/cpu.go and of the driver of   *)
(* src/main.go.                                                            *)
(*                                                                         *)
(* src/cpu.go holds two variants of the core.  The model follows the first *)
(* (lines 1-162), the one whose Run and Execute have bodies; the second    *)
(* (lines 164-279) has an empty Run and an Execute without the funct3 and  *)
(* funct7 switch.  Execute names the opcodes ADDI, LW, SW and BEQ; LW and  *)
(* BEQ are defined only in src/unnamed/part_001, whose values are used     *)
(* (ADDI and SW have the same value in src/instructions.go).               *)
(*                                                                         *)
(* Representation notes.                                                   *)
(*  - cpu.Memory is a 65536-byte slice that only LoadProgram ever writes.  *)
(*    The record field Memory holds the leading bytes that a load has      *)
(*    written; every byte at an offset >= Len(Memory) and < MemLen is the  *)
(*    zero make([]byte, 65536) put there (MemByte).                        *)
(*  - uint32 values are naturals below 2^31 (the range of the model        *)
(*    checker's integers); no operation of the code computes on register   *)
(*    values, so only cpu.PC += 4 does arithmetic, and the PC never        *)
(*    exceeds MemLen because a fetch above MemLen - 4 panics first.        *)
(*  - loaded is the length of the image last passed to LoadProgram, prog   *)
(*    the words a fetch harness supplied; heap, cpus and who model two     *)
(*    CPUs made by two NewCPU calls, whose slices and map are references   *)
(*    to allocated objects.                                                *)
(*  - errors are strings, "nil" for a nil error; a Go panic is the flag    *)
(*    panic of a result and the variable panicked of the state: nothing    *)
(*    in the repository recovers, so a panic ends the process.             *)
(***************************************************************************)
EXTENDS Integers, Sequences, FiniteSets, TLC

VARIABLES cpu, mode, op, arg, val, ret, err, instr, panicked, nsteps, i, storedValue,
          fetchAt, fetches, loaded, prog, heap, cpus, who

vars == <<cpu, mode, op, arg, val, ret, err, instr, panicked, nsteps, i, storedValue,
          fetchAt, fetches, loaded, prog, heap, cpus, who>>

\* The state of the two-instance harness: the objects NewCPU allocated, the
\* two CPU structs that refer to them, and the instance last operated on.
twoVars == <<heap, cpus, who>>

(* ---------------------------------------------------------------- bounds *)

\* Harness steps per behaviour of Spec.
MaxSteps == 2

\* Length, in words, of the programs of the fetch harness (SpecFetch).
MaxFetch == 3

(* ------------------------------------------------------------- constants *)

MemLen == 65536

ADDI == 19
LW == 3
SW == 35
BEQ == 17

SP == 2
A0 == 10
A1 == 11
A2 == 12
A3 == 13

Min(a, b) == IF a < b THEN a ELSE b
Max(a, b) == IF a < b THEN b ELSE a

(* ------------------------------------------------------------ the CPU *)

RegNamesInit ==
    << "zero", "ra", "sp", "gp", "tp", "t0", "t1", "t2", "s0", "s1", "a0", "a1",
       "a2", "a3", "a4", "a5", "a6", "a7", "s2", "s3", "s4", "s5", "s6", "s7",
       "s8", "s9", "s10", "s11", "t3", "t4", "t5", "t6" >>

\* The loop of NewCPU: RegMap[RegNames[i]] = i for i = 0..31, a later i
\* overwriting an earlier one for the same name.
PopulateRegMap(names) ==
    [ n \in { names[k] : k \in 1..Len(names) } |->
        CHOOSE j \in 0..(Len(names) - 1) :
            /\ names[j + 1] = n
            /\ \A k \in 0..(Len(names) - 1) : names[k + 1] = n => k <= j ]

NewCPU ==
    [ Memory   |-> << >>,
      RegNames |-> RegNamesInit,
      Regs     |-> [ r \in 0..31 |-> 0 ],
      RegMap   |-> PopulateRegMap(RegNamesInit),
      PC       |-> 0 ]

\* The byte of cpu.Memory at offset a, 0 <= a < MemLen.
MemByte(c, a) == IF a < Len(c.Memory) THEN c.Memory[a + 1] ELSE 0

\* slices.Contains(cpu.RegNames, register)
Contains(names, register) == \E k \in 1..Len(names) : names[k] = register

\* binary.LittleEndian.PutUint32
PutUint32(w) ==
    << w % 256, (w \div 256) % 256, (w \div 65536) % 256, (w \div 16777216) % 256 >>

\* binary.LittleEndian.Uint32
Uint32(b) == b[1] + 256 * b[2] + 65536 * b[3] + 16777216 * b[4]

\* main's conversion of the instruction words to a little-endian byte image.
RECURSIVE EncodeProgram(_)
EncodeProgram(words) ==
    IF words = << >> THEN << >>
    ELSE PutUint32(Head(words)) \o EncodeProgram(Tail(words))

\* copy(cpu.Memory, program): min(len(dst), len(src)) bytes, from offset 0.
LoadProgram(c, program) ==
    LET n == Min(MemLen, Len(program))
    IN  [ c EXCEPT !.Memory =
            [ k \in 1..Max(Len(c.Memory), n) |->
                IF k <= n THEN program[k] ELSE c.Memory[k] ] ]

\* SetRegisterValue storing one slot too far, as if RegMap held i + 1.
SetRegisterValueOffByOne(c, register, value) ==
    IF Contains(c.RegNames, register)
    THEN [ cpu |-> [ c EXCEPT !.Regs[(c.RegMap[register] + 1) % 32] = value ],
           err |-> "nil" ]
    ELSE [ cpu |-> c, err |-> "register not found" ]

\* SetRegisterValue without the slices.Contains test: the map lookup of a
\* missing key yields 0, so the value lands in Regs[0] and nil is returned.
SetRegisterValueNoCheck(c, register, value) ==
    LET idx == IF register \in DOMAIN c.RegMap THEN c.RegMap[register] ELSE 0
    IN  [ cpu |-> [ c EXCEPT !.Regs[idx] = value ], err |-> "nil" ]

\* SetRegisterValue storing a double word: the register and the one after.
SetRegisterValueSpills(c, register, value) ==
    IF Contains(c.RegNames, register)
    THEN LET idx == c.RegMap[register]
         IN  [ cpu |-> [ c EXCEPT !.Regs = [ r \in 0..31 |->
                                    IF r = idx \/ r = idx + 1 THEN value ELSE c.Regs[r] ] ],
               err |-> "nil" ]
    ELSE [ cpu |-> c, err |-> "register not found" ]

SetRegisterValue(c, register, value) ==
    IF Contains(c.RegNames, register)
    THEN [ cpu |-> [ c EXCEPT !.Regs[c.RegMap[register]] = value ], err |-> "nil" ]
    ELSE [ cpu |-> c, err |-> "register not found" ]

GetRegisterValue(c, register) ==
    IF Contains(c.RegNames, register)
    THEN [ value |-> c.Regs[c.RegMap[register]], err |-> "nil" ]
    ELSE [ value |-> 0, err |-> "register not found" ]

\* NewCPU with the registers in one slice that every CPU shares (a
\* package-level slice instead of make([]uint32, 32) per call).
AllocCPUSharedRegs(h) ==
    LET c == NewCPU
        n == Len(h)
    IN  IF n = 0
        THEN [ heap |-> << c.Memory, c.RegNames, c.Regs, c.RegMap >>,
               cpu  |-> [ Memory |-> 1, RegNames |-> 2, Regs |-> 3, RegMap |-> 4,
                          PC |-> c.PC ] ]
        ELSE [ heap |-> h \o << c.Memory, c.RegNames, c.RegMap >>,
               cpu  |-> [ Memory |-> n + 1, RegNames |-> n + 2, Regs |-> 3,
                          RegMap |-> n + 3, PC |-> c.PC ] ]

\* NewCPU as an allocation: make([]byte, 65536), the []string literal,
\* make([]uint32, 32) and make(map[string]int) each create a new object, and
\* the struct returned holds references to them and the PC by value.  h is
\* the sequence of the objects allocated so far.
AllocCPU(h) ==
    LET c == NewCPU
        n == Len(h)
    IN  [ heap |-> h \o << c.Memory, c.RegNames, c.Regs, c.RegMap >>,
          cpu  |-> [ Memory |-> n + 1, RegNames |-> n + 2, Regs |-> n + 3,
                     RegMap |-> n + 4, PC |-> c.PC ] ]

\* The CPU a method sees through the struct ref: its slices and map are the
\* objects of h that ref refers to.
View(h, ref) ==
    [ Memory   |-> h[ref.Memory],
      RegNames |-> h[ref.RegNames],
      Regs     |-> h[ref.Regs],
      RegMap   |-> h[ref.RegMap],
      PC       |-> ref.PC ]

\* The objects after a method has left the CPU seen through ref as c: its
\* writes land in the objects ref refers to.
WriteBack(h, ref, c) ==
    [ a \in DOMAIN h |->
        IF a = ref.Memory THEN c.Memory
        ELSE IF a = ref.RegNames THEN c.RegNames
        ELSE IF a = ref.Regs THEN c.Regs
        ELSE IF a = ref.RegMap THEN c.RegMap
        ELSE h[a] ]

\* FetchAndDecode advancing the PC before it reads the word.
FetchAndDecodeIncrementFirst(c) ==
    IF c.PC + 8 > MemLen
    THEN [ cpu |-> c, instr |-> 0, err |-> "nil", panic |-> TRUE ]
    ELSE [ cpu   |-> [ c EXCEPT !.PC = c.PC + 4 ],
           instr |-> Uint32(<< MemByte(c, c.PC + 4), MemByte(c, c.PC + 5),
                               MemByte(c, c.PC + 6), MemByte(c, c.PC + 7) >>),
           err   |-> "nil",
           panic |-> FALSE ]

\* FetchAndDecode advancing the PC by one byte instead of one word.
FetchAndDecodeByteStep(c) ==
    IF c.PC + 4 > MemLen
    THEN [ cpu |-> c, instr |-> 0, err |-> "nil", panic |-> TRUE ]
    ELSE [ cpu   |-> [ c EXCEPT !.PC = c.PC + 1 ],
           instr |-> Uint32(<< MemByte(c, c.PC), MemByte(c, c.PC + 1),
                               MemByte(c, c.PC + 2), MemByte(c, c.PC + 3) >>),
           err   |-> "nil",
           panic |-> FALSE ]

\* The slice expression cpu.Memory[cpu.PC : cpu.PC+4] panics when its bounds
\* are out of range; otherwise the word is read little-endian and PC += 4.
\* The err result is never assigned: it is always nil.
FetchAndDecode(c) ==
    IF c.PC + 4 > MemLen
    THEN [ cpu |-> c, instr |-> 0, err |-> "nil", panic |-> TRUE ]
    ELSE [ cpu   |-> [ c EXCEPT !.PC = c.PC + 4 ],
           instr |-> Uint32(<< MemByte(c, c.PC), MemByte(c, c.PC + 1),
                               MemByte(c, c.PC + 2), MemByte(c, c.PC + 3) >>),
           err   |-> "nil",
           panic |-> FALSE ]

\* Field extraction of Execute.
Opcode(w) == w % 128
Funct3(w) == (w \div 4096) % 8
Funct7(w) == (w \div 33554432) % 128
Rs1(w) == (w \div 32768) % 32
Rs2(w) == (w \div 1048576) % 32
Rd(w) == (w \div 128) % 32

\* executeAdd has an empty body and returns nil.
executeAdd(c, w, rs1, rs2, rd) == [ cpu |-> c, err |-> "nil", panic |-> FALSE ]

\* executeAddi, executeLw, executeSw, executeBeq: panic("unimplemented").
executeAddi(c, w) == [ cpu |-> c, err |-> "nil", panic |-> TRUE ]
executeLw(c, w) == [ cpu |-> c, err |-> "nil", panic |-> TRUE ]
executeSw(c, w) == [ cpu |-> c, err |-> "nil", panic |-> TRUE ]
executeBeq(c, w) == [ cpu |-> c, err |-> "nil", panic |-> TRUE ]

\* The switch of Execute.  A case that does not return (case 0x0, and an
\* R-type word whose funct3/funct7 no inner case matches) leaves the switch
\* and reaches the final return.
Execute(c, w) ==
    LET unimplemented ==
            [ cpu |-> c, err |-> "unimplemented instruction variant", panic |-> FALSE ]
    IN  CASE Opcode(w) = 0 -> unimplemented
          [] Opcode(w) = 51 ->
                IF Funct3(w) = 0 /\ Funct7(w) = 0
                THEN executeAdd(c, w, Rs1(w), Rs2(w), Rd(w))
                ELSE IF Funct3(w) = 0 /\ Funct7(w) = 32
                THEN [ cpu |-> c, err |-> "sub is unimplemented yet", panic |-> FALSE ]
                ELSE unimplemented
          [] Opcode(w) = ADDI -> executeAddi(c, w)
          [] Opcode(w) = LW -> executeLw(c, w)
          [] Opcode(w) = SW -> executeSw(c, w)
          [] Opcode(w) = BEQ -> executeBeq(c, w)
          [] OTHER -> [ cpu |-> c, err |-> "invalid instruction", panic |-> FALSE ]

\* One fetch-then-execute cycle as main's loop body and Run's loop body
\* perform it: FetchAndDecode, then (fetch error nil) Execute on its word.
\* stage tells where the cycle ended.
Cycle(c) ==
    LET f == FetchAndDecode(c)
    IN  IF f.panic
        THEN [ cpu |-> f.cpu, instr |-> f.instr, err |-> f.err, panic |-> TRUE,
               stage |-> "fetch" ]
        ELSE IF f.err # "nil"
        THEN [ cpu |-> f.cpu, instr |-> f.instr, err |-> f.err, panic |-> FALSE,
               stage |-> "fetch" ]
        ELSE LET e == Execute(f.cpu, f.instr)
             IN  [ cpu |-> e.cpu, instr |-> f.instr, err |-> e.err, panic |-> e.panic,
                   stage |-> "execute" ]

(* ------------------------------------------------------------- inputs *)

\* The program of main.
instructions == << 305419575, 44041619, 11863603, 1085671091, 12656675 >>

\* Instruction words the harness loads: main's five (lui, addi, add, sub,
\* sw), an all-zero word, R-type words with an unknown funct3 and an unknown
\* funct7, lw, a word with the code's BEQ opcode 0x11, a word with opcode
\* 0x63, opcode 0x7F, and add a2, sp, t6 (an add whose sources the harness
\* seeds).
InstrWords ==
    { 305419575, 44041619, 11863603, 1085671091, 12656675,
      0, 11867699, 45418035, 75011, 17, 11863139, 127, 32572979 }

\* An image 4 bytes longer than the memory: main's program followed by
\* zero bytes.
OversizeImage == EncodeProgram(instructions) \o [ k \in 1..(MemLen - 16) |-> 0 ]

\* The programs Run is started on: main's, one-word programs of lui, of an
\* all-zero word and of add, and the oversize image.
RunPrograms ==
    { EncodeProgram(instructions), OversizeImage }
        \cup { EncodeProgram(<< w >>) : w \in { 305419575, 0, 11863603 } }

\* The program images the harness loads: every one-word program over
\* InstrWords, and main's program.
Programs ==
    { EncodeProgram(<< w >>) : w \in InstrWords } \cup { EncodeProgram(instructions) }

\* The sequences over S of length at most n.
RECURSIVE SeqsUpTo(_, _)
SeqsUpTo(S, n) ==
    IF n = 0 THEN { << >> }
    ELSE LET shorter == SeqsUpTo(S, n - 1)
         IN  shorter \cup { Append(t, x) : t \in { u \in shorter : Len(u) = n - 1 }, x \in S }

\* The programs of the fetch harness, as words: every sequence of 1 to
\* MaxFetch words among lui, addi, sub and an all-zero word.
FetchPrograms ==
    SeqsUpTo({ 305419575, 44041619, 1085671091, 0 }, MaxFetch) \ { << >> }

\* The inputs of the two-instance harness: one-word programs of add and of
\* lui, the names zero and sp, the values 0 and 42.
TwoPrograms == { EncodeProgram(<< w >>) : w \in { 11863603, 305419575 } }
TwoNames == { "zero", "sp" }
TwoValues == { 0, 42 }

\* Register names the harness passes: the first register, one in the middle,
\* the last one, and a name that is no register name.
NameArgs == { "zero", "sp", "t6", "x0" }

\* Register values the harness passes.
ValueArgs == { 0, 42, 2147483647 }

(* ------------------------------------------------------------ actions *)

Init ==
    /\ cpu = NewCPU
    /\ mode = "idle"
    /\ op = "new"
    /\ arg = ""
    /\ val = 0
    /\ ret = 0
    /\ err = "nil"
    /\ instr = 0
    /\ panicked = FALSE
    /\ nsteps = 0
    /\ i = 0
    /\ storedValue = 0
    /\ fetchAt = 0
    /\ fetches = 0
    /\ loaded = 0
    /\ prog = << >>
    /\ heap = << >>
    /\ cpus = << >>
    /\ who = 0

Harness == mode \in { "idle", "harness" } /\ ~panicked

\* The harness loads a program image.
DoLoadProgram ==
    /\ Harness
    /\ \E p \in Programs :
        /\ cpu' = LoadProgram(cpu, p)
        /\ mode' = "harness"
        /\ op' = "load"
        /\ arg' = ""
        /\ val' = 0
        /\ ret' = 0
        /\ err' = "nil"
        /\ instr' = 0
        /\ loaded' = Len(p)
        /\ UNCHANGED <<panicked, nsteps, i, storedValue, fetchAt, fetches, prog>>
        /\ UNCHANGED twoVars

\* The harness seeds a register by name.
DoSetRegisterValue ==
    /\ Harness
    /\ \E register \in NameArgs, value \in ValueArgs :
        LET r == SetRegisterValue(cpu, register, value)
        IN  /\ cpu' = r.cpu
            /\ mode' = "harness"
            /\ op' = "set"
            /\ arg' = register
            /\ val' = value
            /\ ret' = 0
            /\ err' = r.err
            /\ instr' = 0
            /\ UNCHANGED <<panicked, nsteps, i, storedValue, fetchAt, fetches, loaded, prog>>
            /\ UNCHANGED twoVars

\* The harness reads a register by name.
DoGetRegisterValue ==
    /\ Harness
    /\ \E register \in NameArgs :
        LET r == GetRegisterValue(cpu, register)
        IN  /\ cpu' = cpu
            /\ mode' = "harness"
            /\ op' = "get"
            /\ arg' = register
            /\ val' = 0
            /\ ret' = r.value
            /\ err' = r.err
            /\ instr' = 0
            /\ UNCHANGED <<panicked, nsteps, i, storedValue, fetchAt, fetches, loaded, prog>>
            /\ UNCHANGED twoVars

\* The harness performs one step: FetchAndDecode, then Execute of the word.
Step ==
    /\ Harness
    /\ nsteps < MaxSteps
    /\ LET r == Cycle(cpu)
       IN  /\ cpu' = r.cpu
           /\ mode' = "harness"
           /\ op' = "step"
           /\ arg' = ""
           /\ val' = 0
           /\ ret' = 0
           /\ err' = r.err
           /\ instr' = r.instr
           /\ panicked' = r.panic
           /\ nsteps' = nsteps + 1
           /\ fetchAt' = cpu.PC
           /\ fetches' = fetches + 1
           /\ UNCHANGED <<i, storedValue, loaded, prog>>
           /\ UNCHANGED twoVars

\* main, up to the loop: a new CPU, the program encoded and loaded.
MainLoad ==
    /\ mode = "idle"
    /\ cpu' = LoadProgram(NewCPU, EncodeProgram(instructions))
    /\ mode' = "main"
    /\ op' = "mainload"
    /\ i' = 0
    /\ loaded' = Len(EncodeProgram(instructions))
    /\ UNCHANGED <<arg, val, ret, err, instr, panicked, nsteps, storedValue, fetchAt, fetches,
                   prog>>
    /\ UNCHANGED twoVars

\* One iteration of main's loop: it returns on the first error; after the
\* last iteration main reads the word at Regs[SP] and ends.
MainStep ==
    /\ mode = "main"
    /\ ~panicked
    /\ i < Len(instructions)
    /\ LET r == Cycle(cpu)
           last == (i + 1 = Len(instructions))
           sp == r.cpu.Regs[SP]
       IN  /\ cpu' = r.cpu
           /\ op' = "mainstep"
           /\ err' = r.err
           /\ instr' = r.instr
           /\ fetchAt' = cpu.PC
           /\ fetches' = fetches + 1
           /\ IF r.panic
              THEN /\ panicked' = TRUE
                   /\ UNCHANGED <<mode, i, storedValue>>
              ELSE IF r.err # "nil"
              THEN /\ mode' = "exited"
                   /\ UNCHANGED <<panicked, i, storedValue>>
              ELSE /\ i' = i + 1
                   /\ mode' = IF last THEN "exited" ELSE "main"
                   /\ panicked' = (last /\ sp + 4 > MemLen)
                   /\ storedValue' =
                        IF last /\ sp + 4 <= MemLen
                        THEN Uint32(<< MemByte(r.cpu, sp), MemByte(r.cpu, sp + 1),
                                       MemByte(r.cpu, sp + 2), MemByte(r.cpu, sp + 3) >>)
                        ELSE storedValue
           /\ UNCHANGED <<arg, val, ret, nsteps, loaded, prog>>
           /\ UNCHANGED twoVars

\* A program is loaded and Run is called.
RunLoad ==
    /\ mode = "idle"
    /\ \E p \in RunPrograms :
        /\ cpu' = LoadProgram(cpu, p)
        /\ mode' = "run"
        /\ op' = "runload"
        /\ loaded' = Len(p)
        /\ UNCHANGED <<arg, val, ret, err, instr, panicked, nsteps, i, storedValue,
                       fetchAt, fetches, prog>>
        /\ UNCHANGED twoVars

\* One iteration of Run's loop: it returns when the fetch reports an error,
\* and drops the error of Execute.
RunStep ==
    /\ mode = "run"
    /\ ~panicked
    /\ LET r == Cycle(cpu)
       IN  /\ cpu' = r.cpu
           /\ op' = "runstep"
           /\ err' = r.err
           /\ instr' = r.instr
           /\ panicked' = r.panic
           /\ fetchAt' = cpu.PC
           /\ fetches' = fetches + 1
           /\ mode' = IF ~r.panic /\ r.stage = "fetch" /\ r.err # "nil"
                      THEN "returned" ELSE "run"
           /\ UNCHANGED <<arg, val, ret, nsteps, i, storedValue, loaded, prog>>
           /\ UNCHANGED twoVars

\* The fetch harness encodes a program little-endian and loads it into the
\* fresh CPU.
FetchLoad ==
    /\ mode = "idle"
    /\ \E words \in FetchPrograms :
        /\ cpu' = LoadProgram(cpu, EncodeProgram(words))
        /\ prog' = words
        /\ loaded' = Len(EncodeProgram(words))
        /\ mode' = "fetching"
        /\ op' = "fetchload"
        /\ UNCHANGED <<arg, val, ret, err, instr, panicked, nsteps, i, storedValue,
                       fetchAt, fetches>>
        /\ UNCHANGED twoVars

\* The fetch harness calls FetchAndDecode, once per word of the program.
DoFetch ==
    /\ mode = "fetching"
    /\ ~panicked
    /\ fetches < Len(prog)
    /\ LET r == FetchAndDecode(cpu)
       IN  /\ cpu' = r.cpu
           /\ op' = "fetch"
           /\ err' = r.err
           /\ instr' = r.instr
           /\ panicked' = r.panic
           /\ fetchAt' = cpu.PC
           /\ fetches' = fetches + 1
           /\ UNCHANGED <<mode, arg, val, ret, nsteps, i, storedValue, loaded, prog>>
           /\ UNCHANGED twoVars

\* Two CPUs made by two calls of NewCPU.
InitTwo ==
    LET first == AllocCPU(<< >>)
        second == AllocCPU(first.heap)
    IN  /\ heap = second.heap
        /\ cpus = << first.cpu, second.cpu >>
        /\ who = 0
        /\ cpu = NewCPU
        /\ mode = "two"
        /\ op = "new"
        /\ arg = ""
        /\ val = 0
        /\ ret = 0
        /\ err = "nil"
        /\ instr = 0
        /\ panicked = FALSE
        /\ nsteps = 0
        /\ i = 0
        /\ storedValue = 0
        /\ fetchAt = 0
        /\ fetches = 0
        /\ loaded = 0
        /\ prog = << >>

\* The state after a method has left instance k as c.
Commit(k, c) ==
    /\ heap' = WriteBack(heap, cpus[k], c)
    /\ cpus' = [ cpus EXCEPT ![k].PC = c.PC ]
    /\ who' = k

\* LoadProgram on one of the two instances.
TwoLoadProgram ==
    /\ mode = "two"
    /\ ~panicked
    /\ \E k \in { 1, 2 }, p \in TwoPrograms :
        /\ Commit(k, LoadProgram(View(heap, cpus[k]), p))
        /\ op' = "load"
        /\ err' = "nil"
        /\ instr' = 0
        /\ UNCHANGED <<cpu, mode, arg, val, ret, panicked, nsteps, i, storedValue,
                       fetchAt, fetches, loaded, prog>>

\* SetRegisterValue on one of the two instances.
TwoSetRegisterValue ==
    /\ mode = "two"
    /\ ~panicked
    /\ \E k \in { 1, 2 }, register \in TwoNames, value \in TwoValues :
        LET r == SetRegisterValue(View(heap, cpus[k]), register, value)
        IN  /\ Commit(k, r.cpu)
            /\ op' = "set"
            /\ err' = r.err
            /\ instr' = 0
            /\ UNCHANGED <<cpu, mode, arg, val, ret, panicked, nsteps, i, storedValue,
                           fetchAt, fetches, loaded, prog>>

\* FetchAndDecode, then Execute, on one of the two instances.
TwoStep ==
    /\ mode = "two"
    /\ ~panicked
    /\ \E k \in { 1, 2 } :
        /\ cpus[k].PC < 4 * MaxSteps
        /\ LET r == Cycle(View(heap, cpus[k]))
           IN  /\ Commit(k, r.cpu)
               /\ op' = "step"
               /\ err' = r.err
               /\ instr' = r.instr
               /\ panicked' = r.panic
               /\ UNCHANGED <<cpu, mode, arg, val, ret, nsteps, i, storedValue,
                              fetchAt, fetches, loaded, prog>>

Next ==
    \/ DoLoadProgram
    \/ DoSetRegisterValue
    \/ DoGetRegisterValue
    \/ Step
    \/ MainLoad
    \/ MainStep

Spec == Init /\ [][Next]_vars

NextRun ==
    \/ RunLoad
    \/ RunStep

SpecRun == Init /\ [][NextRun]_vars

NextFetch ==
    \/ FetchLoad
    \/ DoFetch

SpecFetch == Init /\ [][NextFetch]_vars

NextTwo ==
    \/ TwoLoadProgram
    \/ TwoSetRegisterValue
    \/ TwoStep

SpecTwo == InitTwo /\ [][NextTwo]_vars

(* ------------------------------------------------------------- claims *)

\* The opcodes of the decode table, the branch opcode being the code's BEQ.
TableOpcodes == { 51, ADDI, LW, SW, 55, BEQ }

\* A word with a table opcode and, for opcode 0x33, a recognised
\* funct3/funct7 combination.
Recognised(w) ==
    /\ Opcode(w) \in TableOpcodes
    /\ Opcode(w) = 51 => (Funct3(w) = 0 /\ Funct7(w) \in { 0, 32 })

\* The errors by which Execute rejects a word it does not know.
UnknownInstruction == { "invalid instruction", "unimplemented instruction variant" }

\* C1: register 0 reads as 0 in every reachable state: GetRegisterValue of
\* "zero" returns 0 whatever SetRegisterValue calls and steps came before.
C1_ZeroRegisterReadsZero ==
    GetRegisterValue(cpu, "zero") = [ value |-> 0, err |-> "nil" ]

\* C2: after SetRegisterValue(r, v) for a register name r other than zero,
\* the call has succeeded and GetRegisterValue(r) returns exactly v.
C2_SetThenGet ==
    (op = "set" /\ Contains(cpu.RegNames, arg) /\ arg # "zero")
        => /\ err = "nil"
           /\ GetRegisterValue(cpu, arg) = [ value |-> val, err |-> "nil" ]

C2_Witness ==
    /\ op = "set" /\ arg = "t6" /\ val = 2147483647
    /\ cpu.Regs[31] = 2147483647
    /\ cpu.Regs[2] = 42

\* C3: SetRegisterValue and GetRegisterValue with a name that is none of the
\* 32 register names return the error "register not found", and the call
\* leaves registers, memory and PC as they were.
C3_RegisterNotFound ==
    [][ ((op' = "set" \/ op' = "get") /\ ~Contains(cpu.RegNames, arg'))
            => (err' = "register not found" /\ ret' = 0 /\ cpu' = cpu) ]_vars

C3_Witness ==
    /\ op = "set" /\ arg = "x0" /\ val = 42
    /\ err = "register not found"
    /\ cpu.Regs[2] = 42

\* C4: main's program, loaded into a fresh emulator and stepped 5 times,
\* completes the 5 steps without error with a0 = 0x12345000, a1 = 0x2A,
\* a2 = 0x1234502A, a3 = 0x12345000 and the word at Regs[SP] equal to a2.
C4_EndToEnd ==
    (mode = "exited")
        => /\ ~panicked
           /\ err = "nil"
           /\ i = 5
           /\ cpu.Regs[A0] = 305418240
           /\ cpu.Regs[A1] = 42
           /\ cpu.Regs[A2] = 305418282
           /\ cpu.Regs[A3] = 305418240
           /\ storedValue = cpu.Regs[A2]

\* C5: once an iteration of Run has ended in an error, Run fetches no
\* further instruction.
C5_RunStopsAtFirstError ==
    [][ (op = "runstep" /\ err # "nil") => (fetches' = fetches /\ cpu' = cpu) ]_vars

\* C6: when Run fetches a word whose opcode is 0, executing it changes
\* nothing, produces no error, and Run has returned.
C6_HaltSentinel ==
    (op = "runstep" /\ ~panicked /\ Opcode(instr) = 0)
        => (err = "nil" /\ mode = "returned")

\* C7: a fetch at a PC with PC + 4 > MemLen ends in an error value, not in
\* a panic.
C7_FetchOutOfBounds ==
    (op \in { "step", "mainstep", "runstep" } /\ fetchAt + 4 > MemLen)
        => (~panicked /\ err # "nil")

\* C8: a step that ends in an error leaves PC, registers and memory as
\* they were before the step.
C8_StepAllOrNothing ==
    [][ (op' = "step" /\ nsteps' = nsteps + 1 /\ err' # "nil") => cpu' = cpu ]_vars

\* C9: a stepped word is rejected as an unknown instruction exactly when
\* its opcode is outside the decode table or it is an R-type word with an
\* unrecognised funct3/funct7.
C9_UnknownInstruction ==
    (op = "step")
        => IF Recognised(instr)
           THEN err \notin UnknownInstruction
           ELSE ~panicked /\ err \in UnknownInstruction

\* C10: no step ends in a panic.
C10_NeverPanics == ~panicked


\* The immediates of the I, S and B encodings, sign-extended.
ImmI(w) == LET u == (w \div 1048576) % 4096 IN IF u >= 2048 THEN u - 4096 ELSE u
ImmS(w) ==
    LET u == ((w \div 33554432) % 128) * 32 + ((w \div 128) % 32)
    IN  IF u >= 2048 THEN u - 4096 ELSE u
ImmB(w) ==
    LET u == (((w \div 1073741824) \div 2) % 2) * 4096 + ((w \div 128) % 2) * 2048
                + ((w \div 33554432) % 64) * 32 + ((w \div 256) % 16) * 2
    IN  IF u >= 4096 THEN u - 8192 ELSE u

\* x = (a + b) mod 2^32, compared by 16-bit halves.
IsSum32(x, a, b) ==
    LET lo == (a % 65536) + (b % 65536)
        hi == ((a \div 65536) + (b \div 65536) + (lo \div 65536)) % 65536
    IN  x % 65536 = lo % 65536 /\ x \div 65536 = hi

\* A word that decodes to ADD, SUB, ADDI, LUI or BEQ.
Infallible(w) ==
    \/ Opcode(w) = 51 /\ Funct3(w) = 0 /\ Funct7(w) \in { 0, 32 }
    \/ Opcode(w) \in { ADDI, 55, BEQ }

\* The step just taken was a harness step.
Stepped == op' = "step" /\ nsteps' = nsteps + 1

\* C11: executing a decoded ADD, SUB, ADDI, LUI or BEQ word never returns
\* an error.
C11_InfallibleOnceDecoded ==
    (op = "step" /\ Infallible(instr)) => err = "nil"

\* C12: a step on ADD rd, rs1, rs2 with rd # 0 sets Regs[rd] to
\* (Regs[rs1] + Regs[rs2]) mod 2^32 without error and leaves every other
\* register and all memory unchanged.
C12_AddWraps ==
    [][ (Stepped /\ Opcode(instr') = 51 /\ Funct3(instr') = 0 /\ Funct7(instr') = 0
            /\ Rd(instr') # 0)
          => /\ err' = "nil" /\ ~panicked'
             /\ IsSum32(cpu'.Regs[Rd(instr')], cpu.Regs[Rs1(instr')], cpu.Regs[Rs2(instr')])
             /\ \A r \in 0..31 : r # Rd(instr') => cpu'.Regs[r] = cpu.Regs[r]
             /\ cpu'.Memory = cpu.Memory ]_vars

\* C13: a step that executes BEQ at address pc ends with PC = pc + imm_b
\* when the two source registers are equal and with PC = pc + 4 when not.
C13_BeqRedirects ==
    [][ (Stepped /\ Opcode(instr') = BEQ)
          => /\ ~panicked'
             /\ cpu'.PC = IF cpu.Regs[Rs1(instr')] = cpu.Regs[Rs2(instr')]
                          THEN cpu.PC + ImmB(instr')
                          ELSE cpu.PC + 4 ]_vars

\* The word address a load or store word w computes from the registers of c,
\* reduced mod 4, and whether it is aligned and in bounds.
Misaligned(c, w, imm) == ((c.Regs[Rs1(w)] % 4) + (imm % 4)) % 4 # 0
InBounds(c, w, imm) ==
    c.Regs[Rs1(w)] <= MemLen /\ c.Regs[Rs1(w)] + imm >= 0
        /\ c.Regs[Rs1(w)] + imm + 4 <= MemLen

\* C14: a step on SW a2, 0(sp) with sp 4-byte aligned and in bounds stores
\* a2 little-endian at sp and changes no byte outside those 4.
C14_StoreLoadRoundTrip ==
    [][ (Stepped /\ instr' = 12656675 /\ ~Misaligned(cpu, instr', ImmS(instr'))
            /\ InBounds(cpu, instr', ImmS(instr')))
          => LET a == cpu.Regs[SP]
             IN  /\ ~panicked' /\ err' = "nil"
                 /\ Uint32(<< MemByte(cpu', a), MemByte(cpu', a + 1),
                              MemByte(cpu', a + 2), MemByte(cpu', a + 3) >>)
                        = cpu.Regs[A2]
                 /\ \A b \in 0..(Max(Len(cpu.Memory), Len(cpu'.Memory)) + 4) :
                        b \notin a..(a + 3) => MemByte(cpu', b) = MemByte(cpu, b) ]_vars

\* C15: a step on a LW or SW word whose effective address is not a multiple
\* of 4 ends in an error and changes no register and no memory byte.
C15_MisalignedAccess ==
    [][ (Stepped /\ ( \/ Opcode(instr') = LW /\ Misaligned(cpu, instr', ImmI(instr'))
                      \/ Opcode(instr') = SW /\ Misaligned(cpu, instr', ImmS(instr')) ))
          => /\ ~panicked' /\ err' # "nil"
             /\ cpu'.Regs = cpu.Regs
             /\ cpu'.Memory = cpu.Memory ]_vars

\* C16: loading an image longer than the memory fails with an error and
\* leaves the memory unchanged, instead of loading a truncated prefix.
C16_OversizeLoadFails ==
    [][ (op' \in { "load", "runload" } /\ loaded' > MemLen)
          => (err' # "nil" /\ cpu' = cpu) ]_vars

\* C19: after n little-endian-encoded words are loaded into a fresh
\* emulator, the k-th consecutive fetch (k = 1..n) returns the k-th word as
\* supplied, and the fetch changes no register and no memory byte.
C19_ProgramOrderFetch ==
    [][ (op' = "fetch" /\ fetches' = fetches + 1)
          => /\ ~panicked' /\ err' = "nil"
             /\ fetches' <= Len(prog)
             /\ instr' = prog[fetches']
             /\ cpu'.Regs = cpu.Regs
             /\ cpu'.Memory = cpu.Memory ]_vars

C19_Witness ==
    /\ op = "fetch" /\ fetches = 3
    /\ prog = << 305419575, 44041619, 1085671091 >>
    /\ instr = 1085671091
    /\ cpu.PC = 12

\* C17: an operation on one of two CPUs made by separate NewCPU calls
\* leaves the other's registers, memory, PC and register-name mapping
\* unchanged.
C17_Isolation ==
    [][ \A k \in { 1, 2 } :
            who' # k => View(heap', cpus'[k]) = View(heap, cpus[k]) ]_vars

C17_Witness ==
    /\ mode = "two" /\ who = 1 /\ op = "set"
    /\ View(heap, cpus[1]).Regs[SP] = 42
    /\ View(heap, cpus[2]).Regs[SP] = 0
    /\ View(heap, cpus[1]).PC = 4
    /\ View(heap, cpus[2]).PC = 0
    /\ View(heap, cpus[2]).Memory = EncodeProgram(<< 305419575 >>)
    /\ View(heap, cpus[1]).Memory = EncodeProgram(<< 11863603 >>)

\* C18: the PC is a multiple of 4 in every state reached by loading and
\* stepping, and a successfully completed step of a non-branching
\* instruction leaves it exactly 4 greater.
C18_PcAdvancesByFour ==
    /\ cpu.PC % 4 = 0
    /\ [][ /\ cpu'.PC % 4 = 0
           /\ (Stepped /\ err' = "nil" /\ ~panicked' /\ Opcode(instr') # BEQ)
                => cpu'.PC = cpu.PC + 4 ]_vars

C18_Witness ==
    /\ op = "step" /\ nsteps = 1
    /\ instr = 32572979 /\ err = "nil" /\ ~panicked
    /\ cpu.Regs[SP] = 42
    /\ cpu.PC = 4

\* C20: a successful SetRegisterValue(r, v) changes at most the register
\* that r maps to, and neither another register, nor memory, the PC or the
\* name mapping; GetRegisterValue changes nothing.
C20_SetRegisterFrame ==
    [][ /\ (op' = "set" /\ err' = "nil")
              => /\ \A r \in 0..31 :
                        r # cpu.RegMap[arg'] => cpu'.Regs[r] = cpu.Regs[r]
                 /\ cpu'.Memory = cpu.Memory
                 /\ cpu'.PC = cpu.PC
                 /\ cpu'.RegMap = cpu.RegMap
                 /\ cpu'.RegNames = cpu.RegNames
        /\ op' = "get" => cpu' = cpu ]_vars

C20_Witness ==
    /\ op = "set" /\ arg = "sp" /\ val = 42 /\ err = "nil"
    /\ cpu.Regs[SP] = 42
    /\ cpu.Regs[31] = 2147483647
    /\ cpu.PC = 4
    /\ cpu.Memory = EncodeProgram(instructions)

====
